---- MODULE Spec2Model ----
(***************************************************************************)
(* Model of change_detection/notebooks/broken_MCMC_MH_1DGaussian.ipynb:    *)
(* the fault-injecting sampler BrokenMH, the divergence metric             *)
(* NormalDist.kl_divergence and the experiment driver get_klds.            *)
(*                                                                         *)
(* Abstractions.  Positions are integers in units of 0.1, variances in     *)
(* units of 0.01.  Real arithmetic is exact rational arithmetic (a         *)
(* rational is <<numerator, denominator>>, reduced, denominator > 0);      *)
(* floating-point rounding is not modelled.  error_freq and the value of   *)
(* random.random() are integers counting thirds.  A seeded generator is    *)
(* the stream of raw values it will produce, read at a cursor that counts  *)
(* the draws since seeding; a stream repeats after its period.  A NumPy    *)
(* vector of shape (1,) is a sequence of length 1, None the empty          *)
(* sequence.  A divergence value q + ln(r)/2 with q, r rational is the     *)
(* record [kind |-> "finite", q, r]; two such reals are equal exactly when *)
(* q and r are (e is transcendental).                                      *)
(***************************************************************************)
EXTENDS Integers, Sequences, FiniteSets, TLC

VARIABLES
    args,       \* arguments of the running get_klds call
    control,    \* whether the second execution is the error_freq = 0 control
    exec,       \* which execution of the experiment cell is running (1, 2)
    first,      \* arguments and result of the first execution
    pc,         \* position in the experiment cell / get_klds
    posterior,  \* the NormalDist target: [mean, sigma, n_parameters]
    run,        \* loop variable of get_klds
    klds,       \* list of divergences of get_klds
    sampler,    \* mcmc.samplers(): <<>> before a controller exists, else <<s>>
    chain,      \* samples of the running chain (chains[0])
    proposals,  \* history: the proposals made in the running chain
    ref,        \* an unmodified Metropolis-Hastings sampler fed the same draws
    last,       \* history: the most recent call of tell (<<>> if none), with
                \* the number of steps of the chain counted as accepted
    pySeed,     \* stream of the seeded generator of module random
    npSeed,     \* stream of the seeded generator of numpy.random
    pyCount,    \* draws taken from random since random.seed
    npCount     \* draws taken from numpy.random since np.random.seed

vars == <<args, control, exec, first, pc, posterior, run, klds, sampler, chain,
          proposals, ref, last, pySeed, npSeed, pyCount, npCount>>

---------------------------------------------------------------------------
(* Bounds and program constants *)

\* Bounds: num_runs ranges over 1 .. MaxRuns; MaxIterations stands for the
\* 1000 of mcmc.set_max_iterations(1000).
MaxRuns == 2
MaxIterations == 3

\* Lengths after which the streams of the two generators repeat.
PyPeriod == 2
NpPeriod == 3

\* NormalDist(np.array([1.0]), np.array([0.1**2])) and x0 = [np.array([1.0])]
Mean == 10
Sigma == 1
X0 == 10

\* random.random() in thirds: 0, 1/3, 2/3.
UValues == {0, 1, 2}
\* error_freq in thirds: 0, 1/3, 2/3, 1.
ErrorFreqOne == Cardinality(UValues)
ErrorFreqs == 0 .. ErrorFreqOne
\* The raw values of numpy.random.
RawValues == {0, 1}
None == <<>>

---------------------------------------------------------------------------
(* Exact rational arithmetic *)

Abs(n) == IF n < 0 THEN -n ELSE n

RECURSIVE GCD(_, _)
GCD(a, b) == IF b = 0 THEN a ELSE GCD(b, a % b)

Norm(n, d) ==
    LET sn == IF d < 0 THEN -n ELSE n
        sd == Abs(d)
        g == GCD(Abs(sn), sd)
    IN <<sn \div g, sd \div g>>

R(n) == <<n, 1>>
RatAdd(a, b) == Norm(a[1] * b[2] + b[1] * a[2], a[2] * b[2])
RatSub(a, b) == Norm(a[1] * b[2] - b[1] * a[2], a[2] * b[2])
RatMul(a, b) == Norm(a[1] * b[1], a[2] * b[2])
RatDiv(a, b) == Norm(a[1] * b[2], a[2] * b[1])
RatLess(a, b) == a[1] * b[2] < b[1] * a[2]

---------------------------------------------------------------------------
(* The random generators *)

\* random.seed(1000): the cursor of the stream returns to its start.
random_seed(count) == 0

np_random_seed_skipped(count) == count
\* np.random.seed(1000)
np_random_seed(count) == 0

\* random.random(): the next value of the stream, in thirds, in [0, 1).
random_random(count) == pySeed[count % PyPeriod]

\* The raw value numpy.random produces at a cursor.
np_raw(count) == npSeed[count % NpPeriod]

\* np.random.multivariate_normal(current, sigma0): one step left or right.
multivariate_normal(current, raw) == <<current[1] + (2 * raw - 1)>>

\* np.log(np.random.uniform(0, 1)): strictly negative.
log_uniform(raw) == IF raw = 0 THEN <<-1, 4>> ELSE <<-1, 1>>

---------------------------------------------------------------------------
(* The target and the unmodified sampler (collaborators) *)

NormalDist(mean, sigma) ==
    [mean |-> mean, sigma |-> sigma, n_parameters |-> Len(mean)]

\* Log-density of the target at x, up to its additive constant.
LogPdf(p, x) == RatDiv(R(-((x[1] - p.mean[1]) * (x[1] - p.mean[1]))), R(2 * p.sigma))

MetropolisRandomWalkMCMC_init(p, x0) ==
    [current |-> x0, current_log_pdf |-> LogPdf(p, x0), proposed |-> None,
     acceptance |-> R(0), iterations |-> 0]

\* ask(): a new proposal unless one is pending.
MH_ask(s, raw) ==
    IF s.proposed = None
    THEN [s EXCEPT !.proposed = multivariate_normal(s.current, raw)]
    ELSE s

\* The standard Metropolis-Hastings step.
MH_tell(s, fx, logu) ==
    LET accepted == RatLess(logu, RatSub(fx, s.current_log_pdf))
        t == [s EXCEPT
                !.current = IF accepted THEN s.proposed ELSE @,
                !.current_log_pdf = IF accepted THEN fx ELSE @,
                !.proposed = None,
                !.acceptance = RatDiv(RatAdd(RatMul(R(s.iterations), @),
                                             R(IF accepted THEN 1 ELSE 0)),
                                      R(s.iterations + 1)),
                !.iterations = @ + 1]
    IN [s |-> t, ret |-> t.current, accepted |-> accepted]

---------------------------------------------------------------------------
(* BrokenMH *)

BrokenMH_init_SharedErrorFreq(p, x0) ==
    MetropolisRandomWalkMCMC_init(p, x0)
        @@ [error_freq |-> IF sampler = <<>> THEN 0 ELSE sampler[1].error_freq]
\* __init__: the parent's state, and error_freq = 0.0
BrokenMH_init(p, x0) ==
    MetropolisRandomWalkMCMC_init(p, x0) @@ [error_freq |-> 0]

set_error_freq(s, error_freq) == [s EXCEPT !.error_freq = error_freq]

DrawsFaultDecision_Always(error_freq) == TRUE
\* "or" evaluates random.random() only when its left operand is false.
DrawsFaultDecision(error_freq) == error_freq # 0

TakesNormalStep_NoZeroTest(error_freq, u) == u > error_freq
TakesNormalStep_AtLeast(error_freq, u) == error_freq = 0 \/ u >= error_freq
\* The condition of tell.
TakesNormalStep(error_freq, u) == error_freq = 0 \/ u > error_freq

ForcedAccept_KeepsCurrent(s, fx) ==
    [s EXCEPT
        !.acceptance = RatDiv(RatAdd(RatMul(R(s.iterations), @), R(1)),
                              R(s.iterations + 1)),
        !.iterations = @ + 1,
        !.current_log_pdf = fx,
        !.proposed = None]
ForcedAccept_CountsFirst(s, fx) ==
    [s EXCEPT
        !.acceptance = RatDiv(RatAdd(RatMul(R(s.iterations + 1), @), R(1)),
                              R(s.iterations + 2)),
        !.iterations = @ + 1,
        !.current = s.proposed,
        !.current_log_pdf = fx,
        !.proposed = None]
ForcedAccept_ForgetsIteration(s, fx) ==
    [s EXCEPT
        !.acceptance = RatDiv(RatAdd(RatMul(R(s.iterations), @), R(1)),
                              R(s.iterations + 1)),
        !.current = s.proposed,
        !.current_log_pdf = fx,
        !.proposed = None]
\* The else branch of tell: always accept.
ForcedAccept(s, fx) ==
    [s EXCEPT
        !.acceptance = RatDiv(RatAdd(RatMul(R(s.iterations), @), R(1)),
                              R(s.iterations + 1)),
        !.iterations = @ + 1,
        !.current = s.proposed,
        !.current_log_pdf = fx,
        !.proposed = None]

BrokenMH_tell_FaultFromNumpy(s, fx, u, logu) ==
    IF TakesNormalStep(s.error_freq, u)
    THEN LET r == MH_tell(s, fx, logu)
         IN [s |-> r.s, ret |-> r.ret, branch |-> "normal",
             accepted |-> r.accepted, pyDraws |-> 0,
             npDraws |-> IF DrawsFaultDecision(s.error_freq) THEN 2 ELSE 1]
    ELSE LET t == ForcedAccept(s, fx)
         IN [s |-> t, ret |-> t.current, branch |-> "forced",
             accepted |-> TRUE, pyDraws |-> 0, npDraws |-> 1]
\* tell(fx) with u the value random.random() gives if it is called and logu
\* the value np.log(np.random.uniform(0, 1)) gives if it is called.
BrokenMH_tell(s, fx, u, logu) ==
    IF TakesNormalStep(s.error_freq, u)
    THEN LET r == MH_tell(s, fx, logu)
         IN [s |-> r.s, ret |-> r.ret, branch |-> "normal",
             accepted |-> r.accepted,
             pyDraws |-> IF DrawsFaultDecision(s.error_freq) THEN 1 ELSE 0,
             npDraws |-> 1]
    ELSE LET t == ForcedAccept(s, fx)
         IN [s |-> t, ret |-> t.current, branch |-> "forced",
             accepted |-> TRUE, pyDraws |-> 1, npDraws |-> 0]

---------------------------------------------------------------------------
(* NormalDist.kl_divergence *)

RECURSIVE SumSeq(_)
SumSeq(xs) == IF xs = <<>> THEN 0 ELSE xs[1][1] + SumSeq(Tail(xs))

RECURSIVE SumSqDev(_, _)
SumSqDev(xs, m) ==
    IF xs = <<>> THEN R(0)
    ELSE LET d == RatSub(R(xs[1][1]), m)
         IN RatAdd(RatMul(d, d), SumSqDev(Tail(xs), m))

\* np.mean(samples, axis=0)
np_mean(samples) == RatDiv(R(SumSeq(samples)), R(Len(samples)))

np_cov_population(samples) ==
    RatDiv(SumSqDev(samples, np_mean(samples)), R(Len(samples)))
\* np.cov(samples.T): NumPy's default normalisation, by N - 1.
np_cov(samples) ==
    RatDiv(SumSqDev(samples, np_mean(samples)), R(Len(samples) - 1))

Raised == [kind |-> "raised", q |-> R(0), r |-> R(1)]
Inf == [kind |-> "inf", q |-> R(0), r |-> R(1)]
Finite(q, r) == [kind |-> "finite", q |-> q, r |-> r]
Zero == Finite(R(0), R(1))

kl_divergence_NoDimension(self, samples) ==
    LET m0 == np_mean(samples)
        m1 == R(self.mean[1])
        s0 == np_cov(samples)
        s1 == R(self.sigma)
    IN IF s1 = R(0) THEN Raised
       ELSE LET cov_inv == RatDiv(R(1), s1)
                dkl1 == RatMul(cov_inv, s0)
                dkl2 == RatMul(RatMul(RatSub(m1, m0), cov_inv), RatSub(m1, m0))
            IN IF s0 = R(0) THEN Inf
               ELSE Finite(RatMul(<<1, 2>>, RatAdd(dkl1, dkl2)), RatDiv(s1, s0))
kl_divergence_RaisesOnDegenerate(self, samples) ==
    LET m0 == np_mean(samples)
        m1 == R(self.mean[1])
        s0 == np_cov(samples)
        s1 == R(self.sigma)
    IN IF s1 = R(0) \/ s0 = R(0) THEN Raised
       ELSE LET cov_inv == RatDiv(R(1), s1)
                dkl1 == RatMul(cov_inv, s0)
                dkl2 == RatMul(RatMul(RatSub(m1, m0), cov_inv), RatSub(m1, m0))
            IN Finite(RatMul(<<1, 2>>,
                             RatSub(RatAdd(dkl1, dkl2), R(self.n_parameters))),
                      RatDiv(s1, s0))
\* kl_divergence(samples).  np.linalg.inv(s1) raises LinAlgError for a
\* singular s1.  For a singular s0, det(s1) / det(s0) is a float division
\* by zero, which gives inf (with a warning), and np.log(inf) is inf.
kl_divergence(self, samples) ==
    LET m0 == np_mean(samples)
        m1 == R(self.mean[1])
        s0 == np_cov(samples)
        s1 == R(self.sigma)
    IN IF s1 = R(0) THEN Raised
       ELSE LET cov_inv == RatDiv(R(1), s1)
                dkl1 == RatMul(cov_inv, s0)
                dkl2 == RatMul(RatMul(RatSub(m1, m0), cov_inv), RatSub(m1, m0))
            IN IF s0 = R(0) THEN Inf
               ELSE Finite(RatMul(<<1, 2>>,
                                  RatSub(RatAdd(dkl1, dkl2), R(self.n_parameters))),
                           RatDiv(s1, s0))

---------------------------------------------------------------------------
(* get_klds and the experiment cell *)

ShouldBreak_NextRun(r, start_breaking) == r + 1 >= start_breaking
ShouldBreak_After(r, start_breaking) == r > start_breaking
\* if run >= start_breaking
ShouldBreak(r, start_breaking) == r >= start_breaking

klds_prepend(ks, kld) == <<kld>> \o ks
\* klds.append(kld)
klds_append(ks, kld) == Append(ks, kld)

ArgSets ==
    [num_runs : 1 .. MaxRuns, start_breaking : 0 .. MaxRuns, error_freq : ErrorFreqs]

Init ==
    /\ args \in ArgSets
    /\ control \in BOOLEAN
    /\ exec = 1
    /\ first = [args |-> args, klds |-> <<>>]
    /\ pc = "cell"
    /\ posterior = NormalDist(<<Mean>>, Sigma)
    /\ run = 0
    /\ klds = <<>>
    /\ sampler = <<>>
    /\ chain = <<>>
    /\ proposals = <<>>
    /\ ref = <<>>
    /\ last = <<>>
    /\ pySeed \in [0 .. PyPeriod - 1 -> UValues]
    /\ npSeed \in [0 .. NpPeriod - 1 -> RawValues]
    /\ pyCount = 0
    /\ npCount = 0

\* The experiment cell: seed both generators, call get_klds.
Experiment ==
    /\ pc = "cell"
    /\ pyCount' = random_seed(pyCount)
    /\ npCount' = np_random_seed(npCount)
    /\ posterior' = NormalDist(<<Mean>>, Sigma)
    /\ klds' = <<>>
    /\ run' = 0
    /\ pc' = "for"
    /\ UNCHANGED <<args, control, exec, first, sampler, chain, proposals, ref,
                   last, pySeed, npSeed>>

\* for run in range(num_runs): a new controller with one new BrokenMH sampler.
StartRun ==
    /\ pc = "for"
    /\ run < args.num_runs
    /\ sampler' = <<BrokenMH_init(posterior, <<X0>>)>>
    /\ ref' = <<MetropolisRandomWalkMCMC_init(posterior, <<X0>>)>>
    /\ chain' = <<>>
    /\ proposals' = <<>>
    /\ last' = <<>>
    /\ pc' = "config"
    /\ UNCHANGED <<args, control, exec, first, posterior, run, klds, pySeed,
                   npSeed, pyCount, npCount>>

\* if run >= start_breaking: for s in mcmc.samplers(): s.set_error_freq(...)
Configure ==
    /\ pc = "config"
    /\ sampler' = IF ShouldBreak(run, args.start_breaking)
                  THEN <<set_error_freq(sampler[1], args.error_freq)>>
                  ELSE sampler
    /\ pc' = "ask"
    /\ UNCHANGED <<args, control, exec, first, posterior, run, klds, chain,
                   proposals, ref, last, pySeed, npSeed, pyCount, npCount>>

\* mcmc.run(), first half of an iteration: ask() for a proposal.
Ask ==
    /\ pc = "ask"
    /\ LET raw == np_raw(npCount)
           s == MH_ask(sampler[1], raw)
       IN /\ sampler' = <<s>>
          /\ ref' = <<MH_ask(ref[1], raw)>>
          /\ proposals' = Append(proposals, s.proposed)
    /\ npCount' = npCount + 1
    /\ pc' = "tell"
    /\ UNCHANGED <<args, control, exec, first, posterior, run, klds, chain,
                   last, pySeed, npSeed, pyCount>>

\* mcmc.run(), second half: evaluate the proposal, tell(fx), store the sample.
Tell ==
    /\ pc = "tell"
    /\ LET s == sampler[1]
           fx == LogPdf(posterior, s.proposed)
           u == random_random(pyCount)
           logu == log_uniform(np_raw(npCount))
           res == BrokenMH_tell(s, fx, u, logu)
           rres == MH_tell(ref[1], LogPdf(posterior, ref[1].proposed), logu)
       IN /\ sampler' = <<res.s>>
          /\ ref' = <<rres.s>>
          /\ chain' = Append(chain, res.ret)
          /\ pyCount' = pyCount + res.pyDraws
          /\ npCount' = npCount + res.npDraws
          /\ last' = <<[pre |-> s, fx |-> fx,
                        u |-> IF res.pyDraws = 1 THEN <<u>> ELSE None,
                        branch |-> res.branch, accepted |-> res.accepted,
                        ret |-> res.ret, refAccepted |-> rres.accepted,
                        refRet |-> rres.ret,
                        nAccepted |-> (IF last = <<>> THEN 0 ELSE last[1].nAccepted)
                                        + (IF res.accepted THEN 1 ELSE 0)]>>
          /\ pc' = IF Len(chain) + 1 >= MaxIterations THEN "kld" ELSE "ask"
    /\ UNCHANGED <<args, control, exec, first, posterior, run, klds, proposals,
                   pySeed, npSeed>>

\* kld = posterior.kl_divergence(chains[0]); klds.append(kld)
Kld ==
    /\ pc = "kld"
    /\ LET kld == kl_divergence(posterior, chain)
       IN IF kld.kind = "raised"
          THEN /\ pc' = "raised"
               /\ UNCHANGED <<klds, run>>
          ELSE /\ klds' = klds_append(klds, kld)
               /\ run' = run + 1
               /\ pc' = "for"
    /\ UNCHANGED <<args, control, exec, first, posterior, sampler, chain,
                   proposals, ref, last, pySeed, npSeed, pyCount, npCount>>

\* return klds
Return ==
    /\ pc = "for"
    /\ run >= args.num_runs
    /\ pc' = "done"
    /\ UNCHANGED <<args, control, exec, first, posterior, run, klds, sampler,
                   chain, proposals, ref, last, pySeed, npSeed, pyCount, npCount>>

\* The experiment cell is executed a second time, with the same arguments or,
\* as the control, with error_freq = 0.
Rerun ==
    /\ pc = "done"
    /\ exec = 1
    /\ first' = [args |-> args, klds |-> klds]
    /\ args' = IF control THEN [args EXCEPT !.error_freq = 0] ELSE args
    /\ exec' = 2
    /\ pc' = "cell"
    /\ UNCHANGED <<control, posterior, run, klds, sampler, chain, proposals,
                   ref, last, pySeed, npSeed, pyCount, npCount>>

Next ==
    \/ Experiment
    \/ StartRun
    \/ Configure
    \/ Ask
    \/ Tell
    \/ Kld
    \/ Return
    \/ Rerun

Spec == Init /\ [][Next]_vars

---------------------------------------------------------------------------
(* kl_divergence on bounded inputs: get_klds at its divergence step, for    *)
(* any target and any chain                                                *)

Targets == {NormalDist(<<m>>, s) : m \in {Mean, Mean + 1}, s \in {0, Sigma, 2 * Sigma}}
Positions == {X0 - 1, X0, X0 + 1}
Chains == UNION {[1 .. n -> {<<x>> : x \in Positions}] : n \in 2 .. MaxIterations}

KLInit ==
    /\ args \in {a \in ArgSets : a.start_breaking = 0 /\ a.error_freq = 0}
    /\ control = FALSE
    /\ exec = 1
    /\ first = [args |-> args, klds |-> <<>>]
    /\ pc = "kld"
    /\ posterior \in Targets
    /\ run = 0
    /\ klds = <<>>
    /\ sampler = <<>>
    /\ chain \in Chains
    /\ proposals = <<>>
    /\ ref = <<>>
    /\ last = <<>>
    /\ pySeed = [i \in 0 .. PyPeriod - 1 |-> 0]
    /\ npSeed = [i \in 0 .. NpPeriod - 1 |-> 0]
    /\ pyCount = 0
    /\ npCount = 0

KLNext ==
    \/ Kld
    \/ StartRun
    \/ Return

KLSpec == KLInit /\ [][KLNext]_vars

---------------------------------------------------------------------------
(* Claims *)

SamplerFields(s) ==
    <<s.current, s.current_log_pdf, s.proposed, s.acceptance, s.iterations>>

\* C1: with error_freq = 0 the BrokenMH sampler and an unmodified
\* Metropolis-Hastings sampler given the same draws agree at every step: same
\* accept/reject decision, same returned sample, and after every step the
\* same current sample, current log-density, acceptance rate and iteration
\* count.
C1_ZeroErrorFreqIsMetropolisHastings ==
    (sampler # <<>> /\ sampler[1].error_freq = 0) =>
        /\ SamplerFields(sampler[1]) = SamplerFields(ref[1])
        /\ last # <<>> =>
            /\ last[1].branch = "normal"
            /\ last[1].accepted = last[1].refAccepted
            /\ last[1].ret = last[1].refRet

C1_Witness ==
    /\ sampler # <<>>
    /\ sampler[1].error_freq = 0
    /\ sampler[1].iterations = MaxIterations
    /\ sampler[1].acceptance \notin {R(0), R(1)}
    /\ last # <<>>
    /\ ~last[1].accepted

\* C2: with error_freq = 1 every call of tell takes the forced-accept branch:
\* the returned current sample is the value proposed for the step, the chain
\* is the sequence of proposals, and the acceptance rate is 1 after any
\* number n >= 1 of steps.
C2_ErrorFreqOneForcesEveryStep ==
    (sampler # <<>> /\ sampler[1].error_freq = ErrorFreqOne) =>
        /\ last # <<>> =>
            /\ last[1].branch = "forced"
            /\ last[1].ret = last[1].pre.proposed
            /\ last[1].ret = chain[Len(chain)]
        /\ pc # "tell" => chain = proposals
        /\ Len(chain) = sampler[1].iterations
        /\ sampler[1].iterations >= 1 => sampler[1].acceptance = R(1)

C2_Witness ==
    /\ sampler # <<>>
    /\ sampler[1].error_freq = ErrorFreqOne
    /\ sampler[1].iterations = MaxIterations
    /\ pc = "kld"
    /\ \E i \in 1 .. Len(chain) : LogPdf(posterior, chain[i]) = R(-2)

\* C3: when start_breaking >= num_runs, no run has fault injection switched
\* on, no run consumes a fault-decision draw, and get_klds returns, from the
\* same seeds, exactly what it returns with error_freq = 0.
C3_BreakingBeyondLastRunIsControl ==
    (first.args.start_breaking >= first.args.num_runs) =>
        /\ pyCount = 0
        /\ sampler # <<>> => sampler[1].error_freq = 0
        /\ (exec = 2 /\ control /\ pc = "done") => klds = first.klds

C3_Witness ==
    /\ first.args.start_breaking >= first.args.num_runs
    /\ first.args.error_freq # 0
    /\ first.args.num_runs = MaxRuns
    /\ exec = 2 /\ control /\ pc = "done"
    /\ \E i \in 1 .. Len(klds) : klds[i].kind = "finite"

\* C4: in every run r the sampler's error frequency is error_freq if
\* r >= start_breaking and 0 otherwise; it has that value before the run's
\* first step and at every step of the run.
C4_ErrorFreqFixedPerRun ==
    LET expected == IF run >= args.start_breaking THEN args.error_freq ELSE 0
    IN (pc \in {"ask", "tell", "kld"}) =>
        /\ sampler[1].error_freq = expected
        /\ last # <<>> => last[1].pre.error_freq = expected

C4_Witness ==
    /\ pc = "kld"
    /\ run = 1
    /\ args.start_breaking = 1
    /\ args.error_freq # 0
    /\ sampler[1].error_freq = args.error_freq
    /\ last[1].branch = "forced"

\* C5: get_klds returns exactly num_runs values, entry r being the divergence
\* of run r: runs execute in increasing zero-based order, each run completes
\* (MaxIterations samples, then its divergence) before the next begins, one
\* value is appended per run and no entry is ever changed or removed.
C5_OneEntryPerRunInOrder ==
    /\ [](pc \in {"for", "config", "ask", "tell", "kld"} => Len(klds) = run)
    /\ [](pc = "done" => Len(klds) = args.num_runs)
    /\ [][/\ run' # run =>
               \/ pc = "cell" /\ run' = 0
               \/ pc = "kld" /\ run' = run + 1 /\ Len(chain) = MaxIterations
          /\ klds' # klds =>
               \/ pc = "cell" /\ klds' = <<>>
               \/ /\ pc = "kld"
                  /\ klds' = Append(klds, kl_divergence(posterior, chain))
          /\ (pc # "config" /\ pc' = "config") =>
               pc = "for" /\ Len(klds) = run /\ run < args.num_runs]_vars

C5_Witness ==
    /\ pc = "done"
    /\ args.num_runs = MaxRuns
    /\ Len(klds) = MaxRuns
    /\ klds[1] # klds[2]

\* C6: two executions of the experiment with the same arguments, the same
\* target and the same seeds return the same sequence of divergences.
C6_Deterministic ==
    (exec = 2 /\ ~control /\ pc = "done") => klds = first.klds

C6_Witness ==
    /\ exec = 2 /\ ~control /\ pc = "done"
    /\ args.error_freq \notin {0, ErrorFreqOne}
    /\ args.start_breaking < args.num_runs
    /\ pyCount > 0
    /\ \E i \in 1 .. Len(klds) : klds[i].kind = "finite"

\* C7: kl_divergence returns 0 whenever the empirical mean and the empirical
\* covariance computed from the samples equal the target's mean and
\* covariance.
C7_ZeroWhenMomentsMatch ==
    (/\ pc = "for"
     /\ Len(klds) > 0
     /\ np_mean(chain) = R(posterior.mean[1])
     /\ np_cov(chain) = R(posterior.sigma)) => klds[Len(klds)] = Zero

C7_Witness ==
    /\ pc = "for"
    /\ Len(klds) > 0
    /\ np_mean(chain) = R(posterior.mean[1])
    /\ np_cov(chain) = R(posterior.sigma)
    /\ posterior.sigma = Sigma
    /\ klds[Len(klds)] = Zero

SingularTarget == posterior.sigma = 0
SingularEmpirical == np_cov(chain) = R(0)

\* C8 as stated: a singular covariance at the divergence step, the target's
\* or the empirical one, raises: nothing is appended for the run and no
\* later run starts.
C8_SingularAlwaysRaises ==
    [][/\ (pc = "kld" /\ (SingularTarget \/ SingularEmpirical)) =>
            pc' = "raised" /\ klds' = klds /\ run' = run
       /\ pc = "raised" => pc' = "raised"]_vars

\* C8 amended: a singular target covariance raises, nothing is appended for
\* the run and no later run starts; a singular empirical covariance with a
\* regular target does not raise: the divergence is +infinity, it is appended
\* and get_klds goes on to the next run.
C8_SingularTargetRaisesEmpiricalIsInf ==
    [][/\ (pc = "kld" /\ SingularTarget) =>
            pc' = "raised" /\ klds' = klds /\ run' = run
       /\ (pc = "kld" /\ ~SingularTarget /\ SingularEmpirical) =>
            pc' = "for" /\ klds' = Append(klds, Inf) /\ run' = run + 1
       /\ pc = "raised" => pc' = "raised"]_vars

C8_Witness ==
    /\ pc = "raised"
    /\ SingularTarget
    /\ ~SingularEmpirical
    /\ klds = <<>>

\* C9: every call of tell executes exactly one of the two step variants: the
\* standard step when error_freq = 0 or the drawn u > error_freq, the
\* forced-accept step otherwise (error_freq # 0 and u <= error_freq).
C9_ExactlyOneVariant ==
    last # <<>> =>
        LET l == last[1]
            normal == l.pre.error_freq = 0
                        \/ (l.u # None /\ l.u[1] > l.pre.error_freq)
            forced == l.pre.error_freq # 0 /\ l.u # None
                        /\ l.u[1] <= l.pre.error_freq
        IN /\ l.branch \in {"normal", "forced"}
           /\ l.branch = "normal" <=> normal
           /\ l.branch = "forced" <=> forced
           /\ sampler[1].iterations = l.pre.iterations + 1
           /\ Len(chain) = sampler[1].iterations

C9_Witness ==
    /\ last # <<>>
    /\ last[1].branch = "forced"
    /\ last[1].u = <<last[1].pre.error_freq>>
    /\ last[1].pre.error_freq < ErrorFreqOne

\* C10: a forced-accept step tell(fx) taken with iteration count n and
\* acceptance rate a leaves acceptance rate (n*a + 1)/(n + 1), iteration
\* count n + 1, current sample the pending proposal, current log-density fx,
\* no pending proposal, returns the new current sample and leaves error_freq
\* unchanged.
C10_ForcedAcceptEffect ==
    (last # <<>> /\ pc # "tell" /\ last[1].branch = "forced") =>
        LET l == last[1]
            n == l.pre.iterations
            a == l.pre.acceptance
            s == sampler[1]
        IN /\ s.acceptance = RatDiv(RatAdd(RatMul(R(n), a), R(1)), R(n + 1))
           /\ s.iterations = n + 1
           /\ s.current = l.pre.proposed
           /\ s.current_log_pdf = l.fx
           /\ s.proposed = None
           /\ l.ret = s.current
           /\ s.error_freq = l.pre.error_freq

C10_Witness ==
    /\ last # <<>>
    /\ pc # "tell"
    /\ last[1].branch = "forced"
    /\ last[1].pre.iterations = 2
    /\ last[1].pre.acceptance = <<1, 2>>
    /\ sampler[1].acceptance = <<2, 3>>
    /\ last[1].pre.current # last[1].pre.proposed

\* C12 as stated: every call of tell draws exactly one uniform value for the
\* fault decision, whatever the error frequency, error_freq = 0 included.
C12_AlwaysOneFaultDraw ==
    [][pc = "tell" => pyCount' = pyCount + 1 /\ last'[1].u # None]_vars

\* C12 amended: a call of tell with error_freq # 0 draws exactly one uniform
\* value u in [0, 1) for the fault decision and the generator of module
\* random advances by one; a call with error_freq = 0 draws none and the
\* generator does not advance.
C12_OneFaultDrawUnlessZero ==
    [][pc = "tell" =>
          IF sampler[1].error_freq = 0
          THEN pyCount' = pyCount /\ last'[1].u = None
          ELSE /\ pyCount' = pyCount + 1
               /\ last'[1].u = <<random_random(pyCount)>>
               /\ last'[1].u[1] \in UValues
               /\ last'[1].u[1] < ErrorFreqOne]_vars

C12_Witness ==
    /\ pc = "kld"
    /\ exec = 1
    /\ run = 1
    /\ args.start_breaking = 1
    /\ args.error_freq # 0
    /\ pyCount = MaxIterations
    /\ last[1].u # None

FaultDraws(l) == IF l.u # None THEN 1 ELSE 0
AcceptanceDraws(l) == IF l.branch = "normal" THEN 1 ELSE 0

\* C13 as stated: all randomness comes from one generator, so every draw of
\* a step (fault decision, acceptance) advances the generator the proposals
\* are read from.
C13_SingleGenerator ==
    [][/\ pc = "cell" => npCount' = 0
       /\ pc = "ask" => npCount' = npCount + 1
       /\ pc = "tell" =>
            npCount' = npCount + FaultDraws(last'[1]) + AcceptanceDraws(last'[1])
       /\ pc \notin {"cell", "ask", "tell"} => npCount' = npCount]_vars

\* C13 amended: the randomness comes from two process-wide generators, each
\* seeded once at the start of the experiment and nowhere else: the fault
\* decision of tell is drawn from module random, the proposals and the
\* acceptance draws from numpy.random, and neither kind of draw advances the
\* other generator.
C13_TwoGeneratorsSeededOnce ==
    [][/\ pc = "cell" => pyCount' = 0 /\ npCount' = 0
       /\ pc = "ask" => pyCount' = pyCount /\ npCount' = npCount + 1
       /\ pc = "tell" =>
            /\ pyCount' = pyCount + FaultDraws(last'[1])
            /\ npCount' = npCount + AcceptanceDraws(last'[1])
       /\ pc \notin {"cell", "ask", "tell"} =>
            pyCount' = pyCount /\ npCount' = npCount
       /\ pySeed' = pySeed /\ npSeed' = npSeed]_vars

C13_Witness ==
    /\ exec = 2
    /\ pc = "done"
    /\ last[1].branch = "forced"
    /\ pyCount > 0
    /\ npCount > pyCount
    /\ npCount < 2 * MaxIterations * args.num_runs

\* The empirical covariance s0 behind the last appended divergence, whose
\* logarithmic term is ln(det(s1) / det(s0)).
CovarianceUsed == RatDiv(R(posterior.sigma), klds[Len(klds)].r)
FiniteAppended ==
    pc = "for" /\ Len(klds) > 0 /\ klds[Len(klds)].kind = "finite"

\* C14 as stated: the empirical covariance of a chain of N samples is the sum
\* of squared deviations from the empirical mean divided by N.
C14_PopulationCovariance ==
    FiniteAppended =>
        CovarianceUsed = RatDiv(SumSqDev(chain, np_mean(chain)), R(Len(chain)))

\* C14 amended: the empirical covariance of a chain of N samples is the sum
\* of squared deviations from the empirical mean divided by N - 1.
C14_SampleCovariance ==
    FiniteAppended =>
        CovarianceUsed = RatDiv(SumSqDev(chain, np_mean(chain)), R(Len(chain) - 1))

C14_Witness ==
    /\ FiniteAppended
    /\ Len(chain) = MaxIterations
    /\ posterior.sigma = Sigma
    /\ CovarianceUsed = R(1)
    /\ SumSqDev(chain, np_mean(chain)) = R(MaxIterations - 1)

\* C15: every run starts from a freshly created sampler (iteration count 0,
\* acceptance rate 0, chain empty and started at the fixed start point, no
\* pending proposal, error frequency 0 until configured), whatever the runs
\* before it did; starting a run leaves the generators' positions and the
\* output list as they are, and these are all that a run passes on.
C15_FreshSamplerPerRun ==
    /\ [](pc = "config" =>
            /\ Len(sampler) = 1
            /\ sampler[1].iterations = 0
            /\ sampler[1].acceptance = R(0)
            /\ sampler[1].current = <<X0>>
            /\ sampler[1].current_log_pdf = LogPdf(posterior, <<X0>>)
            /\ sampler[1].proposed = None
            /\ sampler[1].error_freq = 0
            /\ chain = <<>>
            /\ Len(klds) = run)
    /\ [][(pc = "for" /\ pc' = "config") =>
            /\ klds' = klds
            /\ pyCount' = pyCount
            /\ npCount' = npCount
            /\ run' = run
            /\ args' = args]_vars

C15_Witness ==
    /\ pc = "config"
    /\ run = 1
    /\ args.start_breaking = 0
    /\ args.error_freq # 0
    /\ last = <<>>
    /\ pyCount > 0
    /\ npCount > 0
    /\ Len(klds) = 1

\* C16: for any error_freq and any mix of standard and forced-accept steps,
\* after k calls of tell the iteration count is k (each call advances it by
\* exactly one), the acceptance rate lies in [0, 1], and acceptance rate
\* times iteration count is the number of steps counted as accepted.
C16_CountsAndRate ==
    sampler # <<>> =>
        LET s == sampler[1]
            n == IF last = <<>> THEN 0 ELSE last[1].nAccepted
        IN /\ s.iterations = Len(chain)
           /\ last # <<>> => s.iterations = last[1].pre.iterations + 1
           /\ ~RatLess(s.acceptance, R(0))
           /\ ~RatLess(R(1), s.acceptance)
           /\ RatMul(s.acceptance, R(s.iterations)) = R(n)

C16_Witness ==
    /\ sampler # <<>>
    /\ sampler[1].error_freq \notin {0, ErrorFreqOne}
    /\ sampler[1].iterations = MaxIterations
    /\ last[1].branch = "forced"
    /\ last[1].nAccepted = MaxIterations - 1
    /\ \E i \in 1 .. Len(chain) - 1 : chain[i] = chain[i + 1]

====
